---- MODULE Spec2Model ----
(***************************************************************************)
(* Model of the configuration store of the kcauto-kai documentation site:  *)
(* the action creators setJsonConfig / setPythonConfig (actions/config)    *)
(* and the reducers jsonConfig / pythonConfig (reducers/config/config.jsx).*)
(***************************************************************************)
EXTENDS Integers, Sequences, FiniteSets

(***************************************************************************)
(* Bounds of the model.                                                    *)
(***************************************************************************)
\* numeric field values range over -MaxNum .. MaxNum
MaxNum == 1

(***************************************************************************)
(* JavaScript values.  Every value is a record of the same shape; `t` is   *)
(* the JavaScript type and only the field belonging to that type is used.  *)
(* A key that is absent from an object reads as undefined, so an object is *)
(* a function from Keys to values, with Undefined for the absent keys.     *)
(***************************************************************************)
JSValue(t, b, s, n, h, m) == [t |-> t, b |-> b, s |-> s, n |-> n, h |-> h, m |-> m]

Undefined == JSValue("undefined", FALSE, "", 0, 0, 0)

Null == JSValue("null", FALSE, "", 0, 0, 0)

Bool(b) == JSValue("boolean", b, "", 0, 0, 0)

Str(s) == JSValue("string", FALSE, s, 0, 0, 0)

Num(n) == JSValue("number", FALSE, "", n, 0, 0)

\* a Date object; only its local hours and minutes are observed
Time(h, m) == JSValue("date", FALSE, "", 0, h, m)

Hours == 0 .. 23

Minutes == 0 .. 59

\* ToBoolean: the truthiness used by `?:`, `&&`, `!` and `if`
Truthy(v) ==
  CASE v.t = "boolean" -> v.b
    [] v.t = "string" -> v.s # ""
    [] v.t = "number" -> v.n # 0
    [] v.t = "date" -> TRUE
    [] OTHER -> FALSE

Digit(d) == <<"0", "1", "2", "3", "4", "5", "6", "7", "8", "9">>[d + 1]

RECURSIVE NatToString(_)
NatToString(n) ==
  IF n < 10 THEN Digit(n) ELSE NatToString(n \div 10) \o Digit(n % 10)

\* String(n) for an integer n
NumberToString(n) == IF n < 0 THEN "-" \o NatToString(-n) ELSE NatToString(n)

\* String.prototype.padStart(targetLength, padString), padString one character
RECURSIVE padStart(_, _, _)
padStart(s, targetLength, padString) ==
  IF Len(s) >= targetLength THEN s
  ELSE padStart(padString \o s, targetLength, padString)

\* Date.prototype.toString() of a date with local time h:m.  The date and
\* zone parts depend on the day and the browser; a fixed day in UTC stands
\* for them.
DateToString(v) ==
  "Thu Jan 01 1970 " \o padStart(NumberToString(v.h), 2, "0") \o ":"
    \o padStart(NumberToString(v.m), 2, "0")
    \o ":00 GMT+0000 (Coordinated Universal Time)"

\* the text a template literal `${v}` produces: ToString(v)
TemplateString(v) ==
  CASE v.t = "undefined" -> "undefined"
    [] v.t = "null" -> "null"
    [] v.t = "boolean" -> (IF v.b THEN "true" ELSE "false")
    [] v.t = "string" -> v.s
    [] v.t = "number" -> NumberToString(v.n)
    [] v.t = "date" -> DateToString(v)

(***************************************************************************)
(* reducers/config/config.jsx: the defaults and the two reducers.          *)
(***************************************************************************)
\* generalJSTOffset is -((getTimezoneOffset() / 60) + 9): -9 in a UTC browser
jsonConfigDefaults ==
  [ dropzoneActive |-> Bool(FALSE),
    generalProgram |-> Str("Chrome"),
    generalJSTOffset |-> Num(0 - 9),
    generalPause |-> Bool(FALSE),
    scheduledSleepSleepEnabled |-> Bool(TRUE),
    scheduledSleepSleepStartTime |-> Time(0, 0),
    scheduledSleepSleepLength |-> Str("4"),
    scheduledSleepExpeditionSleepEnabled |-> Bool(FALSE),
    scheduledSleepExpeditionSleepStartTime |-> Time(0, 0),
    scheduledSleepExpeditionSleepLength |-> Str("3"),
    scheduledSleepCombatSleepEnabled |-> Bool(FALSE),
    scheduledSleepCombatSleepStartTime |-> Time(0, 0),
    scheduledSleepCombatSleepLength |-> Str("5"),
    expeditionsEnabled |-> Bool(TRUE),
    expeditionsFleet2Enabled |-> Bool(TRUE),
    expeditionsFleet3Enabled |-> Bool(TRUE),
    expeditionsFleet4Enabled |-> Bool(TRUE),
    expeditionsFleet2 |-> Str("2"),
    expeditionsFleet3 |-> Str("5"),
    expeditionsFleet4 |-> Str("38"),
    pvpEnabled |-> Bool(TRUE),
    combatEnabled |-> Bool(FALSE),
    combatEngine |-> Str("live"),
    combatMap |-> Str("1-1"),
    combatFleetMode |-> Str(""),
    combatCombatNodes |-> Null,
    combatNodeSelect1 |-> Null,
    combatNodeSelect2 |-> Null,
    combatNodeSelects |-> Null,
    combatFormationsNode |-> Null,
    combatFormationsFormation |-> Null,
    combatFormations |-> Null,
    combatNightBattlesNode |-> Null,
    combatNightBattlesMode |-> Null,
    combatNightBattles |-> Null,
    combatRetreatLimit |-> Str("heavy"),
    combatRepairLimit |-> Str("moderate"),
    combatRepairTimeLimit |-> Time(0, 30),
    combatLBASGroups |-> Null,
    combatLBASGroup1Node1 |-> Null,
    combatLBASGroup1Node2 |-> Null,
    combatLBASGroup2Node1 |-> Null,
    combatLBASGroup2Node2 |-> Null,
    combatLBASGroup3Node1 |-> Null,
    combatLBASGroup3Node2 |-> Null,
    combatForceRetreatNodes |-> Null,
    combatOptionCheckFatigue |-> Bool(FALSE),
    combatOptionReserveDocks |-> Bool(FALSE),
    combatOptionPortCheck |-> Bool(FALSE),
    combatOptionClearStop |-> Bool(FALSE),
    shipSwitcherEnabled |-> Bool(FALSE),
    shipSwitcherSlot1Criteria |-> Null,
    shipSwitcherSlot1Ships |-> Null,
    shipSwitcherSlot2Criteria |-> Null,
    shipSwitcherSlot2Ships |-> Null,
    shipSwitcherSlot3Criteria |-> Null,
    shipSwitcherSlot3Ships |-> Null,
    shipSwitcherSlot4Criteria |-> Null,
    shipSwitcherSlot4Ships |-> Null,
    shipSwitcherSlot5Criteria |-> Null,
    shipSwitcherSlot5Ships |-> Null,
    shipSwitcherSlot6Criteria |-> Null,
    shipSwitcherSlot6Ships |-> Null,
    questsEnabled |-> Bool(TRUE) ]

\* the field names of a config record
Keys == DOMAIN jsonConfigDefaults

SET_JSON_CONFIG == "SET_JSON_CONFIG"

SET_PYTHON_CONFIG == "SET_PYTHON_CONFIG"

jsonConfigReducerResets(state, action) ==
  IF action.type = SET_JSON_CONFIG THEN action.config ELSE jsonConfigDefaults

\* export const jsonConfig = (state = jsonConfigDefaults, action) => ...
jsonConfigReducer(state, action) ==
  IF action.type = SET_JSON_CONFIG THEN action.config ELSE state

\* export const pythonConfig = (state = [], action) => ...
pythonConfigReducer(state, action) ==
  IF action.type = SET_PYTHON_CONFIG THEN action.config ELSE state

(***************************************************************************)
(* actions/config: the action creators.                                    *)
(***************************************************************************)
setJsonConfigSuccess(config) == [type |-> SET_JSON_CONFIG, config |-> config]

setPythonConfigSuccess(config) == [type |-> SET_PYTHON_CONFIG, config |-> config]

\* The objects setPythonConfig works on: `config`, the caller's record, and
\* `configTemp`, the accumulator of the reduce.  A heap maps each to its
\* fields, so that a write to one object is visibly not a write to the other.
EmptyObject == [k \in Keys |-> Undefined]

NewHeap(config) == [config |-> config, configTemp |-> EmptyObject]

AccumulatorAliased == "config"

\* the initial accumulator of the reduce is a fresh object literal `{}`
Accumulator == "configTemp"

NormalizeValueNoNullCase(v) ==
  CASE v = Bool(TRUE) -> Str("True")
    [] v = Bool(FALSE) -> Str("False")
    [] OTHER -> v

\* switch (config[key]) { case true: case false: case null: default: }
NormalizeValue(v) ==
  CASE v = Bool(TRUE) -> Str("True")
    [] v = Bool(FALSE) -> Str("False")
    [] v = Null -> Str("")
    [] OTHER -> v

\* Object.keys(config).reduce(..., {}): temp[key] = normalized config[key]
ReduceNormalize(heap) ==
  [heap EXCEPT ![Accumulator] = [k \in Keys |-> NormalizeValue(heap.config[k])]]

TimeKeys ==
  { "scheduledSleepSleepStartTime", "scheduledSleepExpeditionSleepStartTime",
    "scheduledSleepCombatSleepStartTime", "combatRepairTimeLimit" }

\* v.getHours() raises a TypeError unless v is a Date; it is only reached
\* when v is truthy
GetHoursThrows(v) == Truthy(v) /\ v.t # "date"

TimeTextNoPad(v) ==
  IF Truthy(v) THEN NumberToString(v.h) \o NumberToString(v.m) ELSE ""

\* config.X ? `${String(X.getHours()).padStart(2, '0')}` +
\*            `${String(X.getMinutes()).padStart(2, '0')}` : ''
TimeText(v) ==
  IF Truthy(v)
  THEN padStart(NumberToString(v.h), 2, "0") \o padStart(NumberToString(v.m), 2, "0")
  ELSE ""

LBASNode(n, i) == "combatLBASGroup" \o Digit(n) \o "Node" \o Digit(i)

LBASGroupNodesEither(configTemp, n) ==
  IF Truthy(configTemp[LBASNode(n, 1)]) \/ Truthy(configTemp[LBASNode(n, 2)])
  THEN TemplateString(configTemp[LBASNode(n, 1)]) \o ","
         \o TemplateString(configTemp[LBASNode(n, 2)])
  ELSE ""

\* configTemp.combatLBASGroupNNode1 && configTemp.combatLBASGroupNNode2 ?
\*   `${...Node1},${...Node2}` : ''
LBASGroupNodes(configTemp, n) ==
  IF Truthy(configTemp[LBASNode(n, 1)]) /\ Truthy(configTemp[LBASNode(n, 2)])
  THEN TemplateString(configTemp[LBASNode(n, 1)]) \o ","
         \o TemplateString(configTemp[LBASNode(n, 2)])
  ELSE ""

\* Array.prototype.join
RECURSIVE join(_, _)
join(arr, sep) ==
  IF Len(arr) = 0 THEN ""
  ELSE IF Len(arr) = 1 THEN arr[1]
  ELSE arr[1] \o sep \o join(Tail(arr), sep)

push(arr, cond, tag) == IF cond THEN Append(arr, tag) ELSE arr

combatOptionsNormalized(config) ==
  push(push(push(push(<<>>,
    Truthy(NormalizeValue(config["combatOptionCheckFatigue"])), "CheckFatigue"),
    Truthy(NormalizeValue(config["combatOptionReserveDocks"])), "ReserveDocks"),
    Truthy(NormalizeValue(config["combatOptionPortCheck"])), "PortCheck"),
    Truthy(NormalizeValue(config["combatOptionClearStop"])), "ClearStop")

\* const combatOptions = []; if (config.combatOptionX) combatOptions.push('X')
combatOptions(config) ==
  push(push(push(push(<<>>,
    Truthy(config["combatOptionCheckFatigue"]), "CheckFatigue"),
    Truthy(config["combatOptionReserveDocks"]), "ReserveDocks"),
    Truthy(config["combatOptionPortCheck"]), "PortCheck"),
    Truthy(config["combatOptionClearStop"]), "ClearStop")

Slots == 1 .. 6

SlotCriteria(n) == "shipSwitcherSlot" \o Digit(n) \o "Criteria"

SlotShips(n) == "shipSwitcherSlot" \o Digit(n) \o "Ships"

SlotIncompleteBoth(configTemp, n) ==
  ~Truthy(configTemp[SlotCriteria(n)]) /\ ~Truthy(configTemp[SlotShips(n)])

\* !configTemp.shipSwitcherSlotNCriteria || !configTemp.shipSwitcherSlotNShips
SlotIncomplete(configTemp, n) ==
  ~Truthy(configTemp[SlotCriteria(n)]) \/ ~Truthy(configTemp[SlotShips(n)])

\* if (incomplete) { configTemp.SlotNCriteria = ''; configTemp.SlotNShips = '' }
BlankSlot(configTemp, n) ==
  IF SlotIncomplete(configTemp, n)
  THEN [configTemp EXCEPT ![SlotCriteria(n)] = Str(""), ![SlotShips(n)] = Str("")]
  ELSE configTemp

\* the six `if` statements, slot 1 to slot 6, on the accumulator object
BlankSlots(heap) ==
  [heap EXCEPT ![Accumulator] =
    BlankSlot(BlankSlot(BlankSlot(BlankSlot(BlankSlot(BlankSlot(
      heap[Accumulator], 1), 2), 3), 4), 5), 6)]

KeyLineNoSpace(key, text) == key \o ":" \o text

\* one template literal of the array: `Key: ${text}`
KeyLine(key, text) == key \o ": " \o text

GeneralSection(e) ==
  << "[General]",
     KeyLine("Program", TemplateString(e.configTemp["generalProgram"])),
     KeyLine("JSTOffset", TemplateString(e.configTemp["generalJSTOffset"])),
     KeyLine("Pause", TemplateString(e.configTemp["generalPause"])) >>

ScheduledSleepSection(e) ==
  << "[ScheduledSleep]",
     KeyLine("SleepEnabled", TemplateString(e.configTemp["scheduledSleepSleepEnabled"])),
     KeyLine("SleepStartTime", e.scheduledSleepSleepStartTime),
     KeyLine("SleepLength", TemplateString(e.configTemp["scheduledSleepSleepLength"])),
     KeyLine("ExpeditionSleepEnabled",
             TemplateString(e.configTemp["scheduledSleepExpeditionSleepEnabled"])),
     KeyLine("ExpeditionSleepStartTime", e.scheduledSleepExpeditionSleepStartTime),
     KeyLine("ExpeditionSleepLength",
             TemplateString(e.configTemp["scheduledSleepExpeditionSleepLength"])),
     KeyLine("CombatSleepEnabled",
             TemplateString(e.configTemp["scheduledSleepCombatSleepEnabled"])),
     KeyLine("CombatSleepStartTime", e.scheduledSleepCombatSleepStartTime),
     KeyLine("CombatSleepLength",
             TemplateString(e.configTemp["scheduledSleepCombatSleepLength"])) >>

ExpeditionsSection(e) ==
  << "[Expeditions]",
     KeyLine("Enabled", TemplateString(e.configTemp["expeditionsEnabled"])),
     KeyLine("Fleet2", TemplateString(e.configTemp["expeditionsFleet2"])),
     KeyLine("Fleet3", TemplateString(e.configTemp["expeditionsFleet3"])),
     KeyLine("Fleet4", TemplateString(e.configTemp["expeditionsFleet4"])) >>

PvPSection(e) ==
  << "[PvP]",
     KeyLine("Enabled", TemplateString(e.configTemp["pvpEnabled"])) >>

CombatSection(e) ==
  << "[Combat]",
     KeyLine("Enabled", TemplateString(e.configTemp["combatEnabled"])),
     KeyLine("Engine", TemplateString(e.configTemp["combatEngine"])),
     KeyLine("Map", TemplateString(e.configTemp["combatMap"])),
     KeyLine("FleetMode", TemplateString(e.configTemp["combatFleetMode"])),
     KeyLine("CombatNodes", TemplateString(e.configTemp["combatCombatNodes"])),
     KeyLine("NodeSelects", TemplateString(e.configTemp["combatNodeSelects"])),
     KeyLine("Formations", TemplateString(e.configTemp["combatFormations"])),
     KeyLine("NightBattles", TemplateString(e.configTemp["combatNightBattles"])),
     KeyLine("RetreatLimit", TemplateString(e.configTemp["combatRetreatLimit"])),
     KeyLine("RepairLimit", TemplateString(e.configTemp["combatRepairLimit"])),
     KeyLine("RepairTimeLimit", e.combatRepairTimeLimit),
     KeyLine("LBASGroups", TemplateString(e.configTemp["combatLBASGroups"])),
     KeyLine("LBASGroup1Nodes", e.combatLBASGroup1Nodes),
     KeyLine("LBASGroup2Nodes", e.combatLBASGroup2Nodes),
     KeyLine("LBASGroup3Nodes", e.combatLBASGroup3Nodes),
     KeyLine("ForceRetreatNodes", TemplateString(e.configTemp["combatForceRetreatNodes"])),
     KeyLine("MiscOptions", join(e.combatOptions, ",")) >>

ShipSwitcherSection(e) ==
  << "[ShipSwitcher]",
     KeyLine("Enabled", TemplateString(e.configTemp["shipSwitcherEnabled"])),
     KeyLine("Slot1Criteria", TemplateString(e.configTemp["shipSwitcherSlot1Criteria"])),
     KeyLine("Slot1Ships", TemplateString(e.configTemp["shipSwitcherSlot1Ships"])),
     KeyLine("Slot2Criteria", TemplateString(e.configTemp["shipSwitcherSlot2Criteria"])),
     KeyLine("Slot2Ships", TemplateString(e.configTemp["shipSwitcherSlot2Ships"])),
     KeyLine("Slot3Criteria", TemplateString(e.configTemp["shipSwitcherSlot3Criteria"])),
     KeyLine("Slot3Ships", TemplateString(e.configTemp["shipSwitcherSlot3Ships"])),
     KeyLine("Slot4Criteria", TemplateString(e.configTemp["shipSwitcherSlot4Criteria"])),
     KeyLine("Slot4Ships", TemplateString(e.configTemp["shipSwitcherSlot4Ships"])),
     KeyLine("Slot5Criteria", TemplateString(e.configTemp["shipSwitcherSlot5Criteria"])),
     KeyLine("Slot5Ships", TemplateString(e.configTemp["shipSwitcherSlot5Ships"])),
     KeyLine("Slot6Criteria", TemplateString(e.configTemp["shipSwitcherSlot6Criteria"])),
     KeyLine("Slot6Ships", TemplateString(e.configTemp["shipSwitcherSlot6Ships"])) >>

QuestsSection(e) ==
  << "[Quests]",
     KeyLine("Enabled", TemplateString(e.configTemp["questsEnabled"])) >>

\* const pythonConfig = [ ... ]: the sections, with '' between them
pythonConfigArray(e) ==
  GeneralSection(e) \o <<"">> \o ScheduledSleepSection(e) \o <<"">>
    \o ExpeditionsSection(e) \o <<"">> \o PvPSection(e) \o <<"">>
    \o CombatSection(e) \o <<"">> \o ShipSwitcherSection(e) \o <<"">>
    \o QuestsSection(e)

\* One run of the thunk setPythonConfig(config) returns, up to its dispatch:
\* whether it threw, the array it built, and the caller's record afterwards.
\* The statements are evaluated in source order; a TypeError of getHours
\* leaves the function before the slots are blanked and the array is built.
setPythonConfigThunk(config) ==
  LET heap1 == ReduceNormalize(NewHeap(config))
      threw == \E k \in TimeKeys : GetHoursThrows(heap1.config[k])
      heap2 == BlankSlots(heap1)
      e == [ configTemp |-> heap2[Accumulator],
             scheduledSleepSleepStartTime |->
               TimeText(heap1.config["scheduledSleepSleepStartTime"]),
             scheduledSleepExpeditionSleepStartTime |->
               TimeText(heap1.config["scheduledSleepExpeditionSleepStartTime"]),
             scheduledSleepCombatSleepStartTime |->
               TimeText(heap1.config["scheduledSleepCombatSleepStartTime"]),
             combatRepairTimeLimit |->
               TimeText(heap1.config["combatRepairTimeLimit"]),
             combatLBASGroup1Nodes |-> LBASGroupNodes(heap1[Accumulator], 1),
             combatLBASGroup2Nodes |-> LBASGroupNodes(heap1[Accumulator], 2),
             combatLBASGroup3Nodes |-> LBASGroupNodes(heap1[Accumulator], 3),
             combatOptions |-> combatOptions(heap1.config) ]
  IN  IF threw
      THEN [threw |-> TRUE, pythonConfig |-> <<>>, config |-> heap1.config]
      ELSE [threw |-> FALSE, pythonConfig |-> pythonConfigArray(e),
            config |-> heap2.config]

(***************************************************************************)
(* The records the caller (the form of the site) passes in.                *)
(***************************************************************************)
SampleStrings == {"", "A2", "B3", "null"}

\* the values a field is given: absent, null, a boolean, a string, a number
\* or a Date
Values ==
  {Undefined, Null, Bool(TRUE), Bool(FALSE), Time(9, 5)}
    \cup {Str(s) : s \in SampleStrings}
    \cup {Num(n) : n \in (0 - MaxNum) .. MaxNum}

\* the defaults with one field given any value
OneFieldRecords == {[jsonConfigDefaults EXCEPT ![k] = v] : k \in Keys, v \in Values}

\* the defaults with one time field set to any time of day
TimeRecords ==
  {[jsonConfigDefaults EXCEPT ![k] = Time(h, m)] : k \in TimeKeys, h \in Hours, m \in Minutes}

\* the defaults with the two nodes of one LBAS group given any values
LBASRecords ==
  {[jsonConfigDefaults EXCEPT ![LBASNode(n, 1)] = v1, ![LBASNode(n, 2)] = v2] :
     n \in 1 .. 3, v1 \in Values, v2 \in Values}

NextSlot(n) == (n % 6) + 1

\* the defaults with one slot given any values and the next slot either
\* both set or both null
SlotRecords ==
  {[jsonConfigDefaults EXCEPT ![SlotCriteria(n)] = v1, ![SlotShips(n)] = v2,
                              ![SlotCriteria(NextSlot(n))] = o[1],
                              ![SlotShips(NextSlot(n))] = o[2]] :
     n \in Slots, v1 \in Values, v2 \in Values,
     o \in {<<Null, Null>>, <<Str("A2"), Str("B3")>>}}

OptionValues == {Bool(TRUE), Bool(FALSE), Null, Str("A2"), Num(0)}

\* the defaults with the four option fields given any option values
OptionRecords ==
  {[jsonConfigDefaults EXCEPT !["combatOptionCheckFatigue"] = a,
                              !["combatOptionReserveDocks"] = b,
                              !["combatOptionPortCheck"] = c,
                              !["combatOptionClearStop"] = d] :
     a \in OptionValues, b \in OptionValues, c \in OptionValues, d \in OptionValues}

\* the records setPythonConfig is tried on
IsInput(c) ==
  \/ c \in OneFieldRecords
  \/ c \in TimeRecords
  \/ c \in LBASRecords
  \/ c \in SlotRecords
  \/ c \in OptionRecords

\* a few records the form hands over one after the other
StoreRecords ==
  { jsonConfigDefaults,
    [jsonConfigDefaults EXCEPT !["shipSwitcherSlot1Criteria"] = Str("A2")],
    [jsonConfigDefaults EXCEPT !["combatOptionPortCheck"] = Bool(TRUE),
                               !["generalProgram"] = Null],
    [jsonConfigDefaults EXCEPT !["combatRepairTimeLimit"] = Str("A2")] }

(***************************************************************************)
(* The store and its caller.                                               *)
(***************************************************************************)
VARIABLES
  config,        \* the record object the caller holds and passes in
  jsonConfig,    \* state of the jsonConfig reducer
  jsonIsConfig,  \* jsonConfig is the very object `config`, not a copy
  pythonConfig,  \* state of the pythonConfig reducer
  action,        \* the action dispatched last
  event,         \* what the caller did last
  lastJson,      \* history: the argument of the latest setJsonConfig call
  lastPython     \* history: the argument of the latest setPythonConfig call

vars == <<config, jsonConfig, jsonIsConfig, pythonConfig, action, event, lastJson, lastPython>>

NoCall == [called |-> FALSE, arg |-> jsonConfigDefaults, threw |-> FALSE]

Call(arg, threw) == [called |-> TRUE, arg |-> arg, threw |-> threw]

\* the reducers' default parameters give the state before any action
InitStore ==
  /\ jsonConfig = jsonConfigDefaults
  /\ jsonIsConfig = FALSE
  /\ pythonConfig = <<>>
  /\ action = [type |-> "@@INIT", config |-> <<>>]
  /\ event = "init"
  /\ lastJson = NoCall
  /\ lastPython = NoCall

Init == config \in StoreRecords /\ InitStore

SerializeInit == IsInput(config) /\ InitStore

\* dispatch(a): every reducer sees the action; json is the jsonConfig state
\* the reducer is handed
dispatch(a, json) ==
  /\ jsonConfig' = jsonConfigReducer(json, a)
  /\ pythonConfig' = pythonConfigReducer(pythonConfig, a)
  /\ action' = a

\* setJsonConfig(config)(dispatch)
setJsonConfig ==
  /\ dispatch(setJsonConfigSuccess(config), jsonConfig)
  /\ jsonIsConfig' = TRUE
  /\ event' = "setJsonConfig"
  /\ lastJson' = Call(config, FALSE)
  /\ UNCHANGED <<config, lastPython>>

\* setPythonConfig(config)(dispatch)
setPythonConfig ==
  \E r \in {setPythonConfigThunk(config)} :
    \E json \in {IF jsonIsConfig THEN r.config ELSE jsonConfig} :
      /\ config' = r.config
      /\ IF r.threw
         THEN /\ jsonConfig' = json
              /\ UNCHANGED <<pythonConfig, action>>
         ELSE dispatch(setPythonConfigSuccess(r.pythonConfig), json)
      /\ event' = "setPythonConfig"
      /\ lastPython' = Call(config, r.threw)
      /\ UNCHANGED <<jsonIsConfig, lastJson>>

\* an action of another part of the site goes through the same store
OtherAction ==
  /\ dispatch([type |-> "OTHER", config |-> <<>>], jsonConfig)
  /\ event' = "dispatch"
  /\ UNCHANGED <<config, jsonIsConfig, lastJson, lastPython>>

\* the form builds another record
BuildRecord ==
  /\ config' \in StoreRecords
  /\ jsonIsConfig' = FALSE
  /\ event' = "build"
  /\ UNCHANGED <<jsonConfig, pythonConfig, action, lastJson, lastPython>>

Next == setJsonConfig \/ setPythonConfig \/ OtherAction \/ BuildRecord

\* the store and its caller
Spec == Init /\ [][Next]_vars

SerializeNext == setJsonConfig \/ setPythonConfig

\* the two thunks applied to every record of the input sets
SerializeSpec == SerializeInit /\ [][SerializeNext]_vars

(***************************************************************************)
(* The documented output format and the properties of the store.           *)
(***************************************************************************)
\* the documented layout: section headers, keys, and "" for a blank line
SpecLayout ==
  << "[General]", "Program", "JSTOffset", "Pause", "",
     "[ScheduledSleep]", "SleepEnabled", "SleepStartTime", "SleepLength",
     "ExpeditionSleepEnabled", "ExpeditionSleepStartTime", "ExpeditionSleepLength",
     "CombatSleepEnabled", "CombatSleepStartTime", "CombatSleepLength", "",
     "[Expeditions]", "Enabled", "Fleet2", "Fleet3", "Fleet4", "",
     "[PvP]", "Enabled", "",
     "[Combat]", "Enabled", "Engine", "Map", "FleetMode", "CombatNodes", "NodeSelects",
     "Formations", "NightBattles", "RetreatLimit", "RepairLimit", "RepairTimeLimit",
     "LBASGroups", "LBASGroup1Nodes", "LBASGroup2Nodes", "LBASGroup3Nodes",
     "ForceRetreatNodes", "MiscOptions", "",
     "[ShipSwitcher]", "Enabled", "Slot1Criteria", "Slot1Ships", "Slot2Criteria",
     "Slot2Ships", "Slot3Criteria", "Slot3Ships", "Slot4Criteria", "Slot4Ships",
     "Slot5Criteria", "Slot5Ships", "Slot6Criteria", "Slot6Ships", "",
     "[Quests]", "Enabled" >>

IsHeader(k) == Len(k) > 0 /\ SubSeq(k, 1, 1) = "["

HasPrefix(line, prefix) ==
  Len(line) >= Len(prefix) /\ SubSeq(line, 1, Len(prefix)) = prefix

\* the text after "Key: " on line i of a serialized config
ValueAt(lines, i) ==
  SubSeq(lines[i], Len(SpecLayout[i]) + 3, Len(lines[i]))

\* the latest setPythonConfig call returned normally, so that pythonConfig
\* holds what it dispatched for the record lastPython.arg
Produced == lastPython.called /\ ~lastPython.threw

\* the keys filled directly from the general pass: <<line, field>>
DirectFields ==
  { <<2, "generalProgram">>, <<3, "generalJSTOffset">>, <<4, "generalPause">>,
    <<7, "scheduledSleepSleepEnabled">>, <<9, "scheduledSleepSleepLength">>,
    <<10, "scheduledSleepExpeditionSleepEnabled">>,
    <<12, "scheduledSleepExpeditionSleepLength">>,
    <<13, "scheduledSleepCombatSleepEnabled">>,
    <<15, "scheduledSleepCombatSleepLength">>,
    <<18, "expeditionsEnabled">>, <<19, "expeditionsFleet2">>,
    <<20, "expeditionsFleet3">>, <<21, "expeditionsFleet4">>,
    <<24, "pvpEnabled">>, <<27, "combatEnabled">>, <<28, "combatEngine">>,
    <<29, "combatMap">>, <<30, "combatFleetMode">>, <<31, "combatCombatNodes">>,
    <<32, "combatNodeSelects">>, <<33, "combatFormations">>,
    <<34, "combatNightBattles">>, <<35, "combatRetreatLimit">>,
    <<36, "combatRepairLimit">>, <<38, "combatLBASGroups">>,
    <<42, "combatForceRetreatNodes">>, <<46, "shipSwitcherEnabled">>,
    <<61, "questsEnabled">> }

\* the documented text of a value after the general pass
NormalText(v) ==
  IF v = Bool(TRUE) THEN "True"
  ELSE IF v = Bool(FALSE) THEN "False"
  ELSE IF v = Null THEN ""
  ELSE TemplateString(v)

\* the inputs documented as falsy after normalization
DocFalsy(v) == v \in {Null, Undefined, Str(""), Num(0)}

\* C1: whenever setPythonConfig has produced its array, it has 61 lines that
\* follow the documented layout: a header line is exactly the header, a
\* separator line is blank, and any other line is its key, a colon, one
\* space and a value.
C1_FixedShape ==
  Produced =>
    /\ Len(pythonConfig) = 61
    /\ Len(SpecLayout) = 61
    /\ \A i \in 1 .. 61 :
         IF SpecLayout[i] = "" \/ IsHeader(SpecLayout[i])
         THEN pythonConfig[i] = SpecLayout[i]
         ELSE /\ HasPrefix(pythonConfig[i], SpecLayout[i] \o ": ")
              /\ pythonConfig[i] # ""
              /\ ~IsHeader(pythonConfig[i])

C1_Witness ==
  /\ Produced
  /\ lastPython.arg = jsonConfigDefaults
  /\ pythonConfig[2] = "Program: Chrome"
  /\ pythonConfig[61] = "Enabled: True"

\* C2 as stated: every directly emitted value is 'True' for true, 'False' for
\* false, empty for null and the natural string form otherwise, and the
\* texts of a native boolean or of null never appear as such a value.
C2_AsStated ==
  Produced =>
    \A d \in DirectFields :
      /\ ValueAt(pythonConfig, d[1]) = NormalText(lastPython.arg[d[2]])
      /\ ValueAt(pythonConfig, d[1]) \notin {"true", "false", "null"}

\* C2 amended: every directly emitted value is 'True' for true, 'False' for
\* false, empty for null and the natural string form otherwise; the texts of
\* a native boolean or of null never appear as the value of a field whose
\* input is a boolean or null.
C2_DirectValues ==
  Produced =>
    \A d \in DirectFields :
      /\ ValueAt(pythonConfig, d[1]) = NormalText(lastPython.arg[d[2]])
      /\ lastPython.arg[d[2]].t \in {"boolean", "null"}
           => ValueAt(pythonConfig, d[1]) \notin {"true", "false", "null"}

C2_Witness ==
  /\ Produced
  /\ lastPython.arg["generalProgram"] = Null
  /\ lastPython.arg["generalPause"] = Bool(FALSE)
  /\ pythonConfig[2] = "Program: "
  /\ pythonConfig[4] = "Pause: False"

\* C3: for each slot, if its criteria or its ships input is falsy (null,
\* empty, absent, 0) both of its lines have an empty value, otherwise both
\* carry their normalized values; never exactly one of the two is empty.
C3_SlotPairs ==
  Produced =>
    \A n \in Slots :
      LET criteria == lastPython.arg[SlotCriteria(n)]
          ships == lastPython.arg[SlotShips(n)]
          outCriteria == ValueAt(pythonConfig, 45 + 2 * n)
          outShips == ValueAt(pythonConfig, 46 + 2 * n)
      IN  /\ IF DocFalsy(criteria) \/ DocFalsy(ships)
             THEN outCriteria = "" /\ outShips = ""
             ELSE outCriteria = NormalText(criteria) /\ outShips = NormalText(ships)
          /\ (outCriteria = "") <=> (outShips = "")

C3_Witness ==
  /\ Produced
  /\ lastPython.arg["shipSwitcherSlot1Criteria"] = Str("A2")
  /\ lastPython.arg["shipSwitcherSlot1Ships"] = Null
  /\ lastPython.arg["shipSwitcherSlot2Criteria"] = Str("A2")
  /\ lastPython.arg["shipSwitcherSlot2Ships"] = Str("B3")
  /\ pythonConfig[47] = "Slot1Criteria: "
  /\ pythonConfig[48] = "Slot1Ships: "
  /\ pythonConfig[49] = "Slot2Criteria: A2"
  /\ pythonConfig[50] = "Slot2Ships: B3"

\* C4: LBASGroupNNodes is '<node1>,<node2>' of the normalized node values
\* when neither input is falsy (null, absent, empty, 0) and empty otherwise;
\* a boolean node does not suppress the pair; the node fields are no keys of
\* the output.
C4_LBASGroups ==
  Produced =>
    /\ \A n \in 1 .. 3 :
         LET node1 == lastPython.arg[LBASNode(n, 1)]
             node2 == lastPython.arg[LBASNode(n, 2)]
         IN  ValueAt(pythonConfig, 38 + n) =
               IF DocFalsy(node1) \/ DocFalsy(node2) THEN ""
               ELSE NormalText(node1) \o "," \o NormalText(node2)
    /\ \A i \in 1 .. Len(pythonConfig), n \in 1 .. 3, j \in 1 .. 2 :
         /\ ~HasPrefix(pythonConfig[i], LBASNode(n, j))
         /\ ~HasPrefix(pythonConfig[i], "LBASGroup" \o Digit(n) \o "Node" \o Digit(j))

C4_Witness ==
  /\ Produced
  /\ lastPython.arg["combatLBASGroup2Node1"] = Str("A2")
  /\ lastPython.arg["combatLBASGroup2Node2"] = Str("B3")
  /\ pythonConfig[40] = "LBASGroup2Nodes: A2,B3"
  /\ pythonConfig[39] = "LBASGroup1Nodes: "

Tag(included, tag) == IF included THEN <<tag>> ELSE <<>>

\* the tags in declaration order, each included when pred holds of its field
TagList(c, pred(_)) ==
  Tag(pred(c["combatOptionCheckFatigue"]), "CheckFatigue")
    \o Tag(pred(c["combatOptionReserveDocks"]), "ReserveDocks")
    \o Tag(pred(c["combatOptionPortCheck"]), "PortCheck")
    \o Tag(pred(c["combatOptionClearStop"]), "ClearStop")

IsTrue(v) == v = Bool(TRUE)

\* truthy inputs: true, a non-empty string, a non-zero number, a Date
DocTruthy(v) == ~DocFalsy(v) /\ v # Bool(FALSE)

\* C5 as stated: MiscOptions is the comma-joined list, in declaration order,
\* of the tags whose raw input field is true.
C5_AsStated ==
  Produced =>
    ValueAt(pythonConfig, 43) = join(TagList(lastPython.arg, IsTrue), ",")

\* C5 amended: MiscOptions is the comma-joined list, in declaration order, of
\* the tags whose raw input field is truthy (true, a non-empty string, a
\* non-zero number or a Date); no leading, trailing or doubled comma, and
\* empty when no field is truthy.
C5_MiscOptions ==
  Produced =>
    ValueAt(pythonConfig, 43) = join(TagList(lastPython.arg, DocTruthy), ",")

C5_Witness ==
  /\ Produced
  /\ lastPython.arg["combatOptionCheckFatigue"] = Bool(TRUE)
  /\ lastPython.arg["combatOptionReserveDocks"] = Bool(FALSE)
  /\ lastPython.arg["combatOptionPortCheck"] = Bool(TRUE)
  /\ lastPython.arg["combatOptionClearStop"] = Bool(FALSE)
  /\ pythonConfig[43] = "MiscOptions: CheckFatigue,PortCheck"

\* the time keys: <<line, field>>
TimeFields ==
  { <<8, "scheduledSleepSleepStartTime">>,
    <<11, "scheduledSleepExpeditionSleepStartTime">>,
    <<14, "scheduledSleepCombatSleepStartTime">>,
    <<37, "combatRepairTimeLimit">> }

TwoDigits(n) == Digit(n \div 10) \o Digit(n % 10)

\* C6: a time field holding a time of day h:m is emitted as the four digits
\* hhmm, a null or absent one as the empty string; what the general pass
\* made of the field (the text of the Date, 'False', '0', 'undefined') is
\* not what is emitted.
C6_TimeFields ==
  Produced =>
    \A d \in TimeFields :
      LET raw == lastPython.arg[d[2]]
          out == ValueAt(pythonConfig, d[1])
      IN  /\ raw.t = "date" =>
               /\ out = TwoDigits(raw.h) \o TwoDigits(raw.m)
               /\ Len(out) = 4
               /\ out # NormalText(raw)
          /\ raw \in {Null, Undefined} => out = ""
          /\ raw \in {Undefined, Bool(FALSE), Num(0)} => out # NormalText(raw)

C6_Witness ==
  /\ Produced
  /\ lastPython.arg["scheduledSleepSleepStartTime"] = Time(9, 5)
  /\ pythonConfig[8] = "SleepStartTime: 0905"

\* the serialized lines of a record, when its serialization returns
Serialized(c) == setPythonConfigThunk(c).pythonConfig

\* C7: jsonConfig is the record of the latest setJsonConfig call, or the
\* defaults; pythonConfig is the serialized lines of the record of the
\* latest setPythonConfig call, or empty.
C7_LatestWins ==
  /\ jsonConfig = IF lastJson.called THEN lastJson.arg ELSE jsonConfigDefaults
  /\ IF lastPython.called
     THEN /\ ~lastPython.threw
          /\ pythonConfig = Serialized(lastPython.arg)
          /\ Len(pythonConfig) = 61
     ELSE pythonConfig = <<>>

\* C8: every setPythonConfig call completes without an error and dispatches
\* its 61 lines.
C8_Total ==
  event = "setPythonConfig" =>
    /\ ~lastPython.threw
    /\ action.type = SET_PYTHON_CONFIG
    /\ Len(pythonConfig) = 61

\* C9: a step that dispatches anything but SET_JSON_CONFIG leaves jsonConfig
\* as it was, and a step that dispatches anything but SET_PYTHON_CONFIG
\* leaves pythonConfig as it was.
C9_Frame ==
  [][ /\ event' \in {"setPythonConfig", "dispatch"} => jsonConfig' = jsonConfig
      /\ event' \in {"setJsonConfig", "dispatch"} => pythonConfig' = pythonConfig ]_vars

C9_Witness ==
  /\ event = "setPythonConfig"
  /\ Produced
  /\ lastJson.called
  /\ jsonConfig = lastJson.arg
  /\ jsonConfig # jsonConfigDefaults
  /\ pythonConfig # <<>>

\* C10: a setPythonConfig call leaves the caller's record, and the jsonConfig
\* state holding it, as they were, and serializing the record again gives
\* the lines the call dispatched.
C10_InputUnmodified ==
  [][ event' = "setPythonConfig" =>
        /\ config' = config
        /\ jsonConfig' = jsonConfig
        /\ ~lastPython'.threw => Serialized(config') = pythonConfig' ]_vars

C10_Witness ==
  /\ event = "setPythonConfig"
  /\ Produced
  /\ jsonIsConfig
  /\ lastPython.arg["shipSwitcherSlot1Criteria"] = Str("A2")
  /\ lastPython.arg["shipSwitcherSlot1Ships"] = Null
  /\ pythonConfig[47] = "Slot1Criteria: "
  /\ config["shipSwitcherSlot1Criteria"] = Str("A2")
  /\ jsonConfig["shipSwitcherSlot1Criteria"] = Str("A2")

====
